---- MODULE Spec2Model ----
(***************************************************************************)
(* Model of projects/Probability/Die.py and Distribution.py: the Die       *)
(* sampler, the three price processes, the simulation generator and the    *)
(* three trace builders.                                                   *)
(*                                                                         *)
(* Randomness (random.randint, numpy.random.binomial) is a nondeterministic*)
(* choice over the support of the draw.  An operator that models a function*)
(* that draws returns the SET of its possible outcomes.                    *)
(*                                                                         *)
(* A Python call either returns a value or raises: Ok(v) / Raise(e).       *)
(* Integers carry their run-time type, Python int or numpy int64, because  *)
(* the two divide by zero differently.  Floats are exact rationals plus    *)
(* inf and nan; all values stay far inside the exact range of float64.     *)
(***************************************************************************)
EXTENDS Integers, Sequences, FiniteSets, TLC

\* ------------------------------------------------------------------ bounds
MaxSides  == 3   \* Die(sides) is constructed with sides in -1..MaxSides
MaxN      == 2   \* sample_n(n) is called with n in -1..MaxN
MaxCount  == 2   \* Process3 states passed directly have counters 0..MaxCount
MaxPulls  == 4   \* elements pulled from one generator instance
MaxSteps  == 2   \* time_steps of a trace call ranges over -2..MaxSteps
MaxTraces == 2   \* num_traces of a trace call ranges over -1..MaxTraces

\* ------------------------------------------------------- results of a call
Ok(v)    == [val |-> v]
Raise(e) == [exc |-> e]
IsOk(r)  == "val" \in DOMAIN r
IsExc(r) == "exc" \in DOMAIN r

\* ------------------------------------------------------------------ numbers
PyInt(v)   == [ty |-> "int",   v |-> v]
NpInt64(v) == [ty |-> "int64", v |-> v]

\* int + int is int; anything with a numpy scalar is a numpy scalar
num_ty(a, b) == IF a.ty = "int" /\ b.ty = "int" THEN "int" ELSE "int64"
num_add(a, b) == [ty |-> num_ty(a, b), v |-> a.v + b.v]
num_sub(a, b) == [ty |-> num_ty(a, b), v |-> a.v - b.v]
num_mul(a, b) == [ty |-> num_ty(a, b), v |-> a.v * b.v]

Fin(n, d) == [k |-> "fin", n |-> n, d |-> d]    \* the float n/d, d > 0
Inf       == [k |-> "inf", n |-> 1, d |-> 0]
NaN       == [k |-> "nan", n |-> 0, d |-> 0]
Half      == Fin(1, 2)

RECURSIVE ipow(_, _)
ipow(b, e) == IF e = 0 THEN 1 ELSE b * ipow(b, e - 1)

\* a / b.  Python int / Python int raises on b == 0; with a numpy scalar on
\* either side numpy divides: x/0 is inf (x > 0) or nan (x == 0) and a
\* RuntimeWarning, which is not an exception under numpy's default error state.
true_div(a, b) ==
    IF b.v # 0 THEN Ok(IF b.v > 0 THEN Fin(a.v, b.v) ELSE Fin(-a.v, -b.v))
    ELSE IF a.ty = "int" /\ b.ty = "int" THEN Raise("ZeroDivisionError")
    ELSE IF a.v = 0 THEN Ok(NaN)
    ELSE Ok(Inf)

\* x ** a for a float a with a natural value (x >= 0): anything ** 0 is 1.0
float_pow(x, a) ==
    IF a = 0 THEN Fin(1, 1)
    ELSE IF x.k = "fin" THEN Fin(ipow(x.n, a), ipow(x.d, a))
    ELSE x

\* 1 + x
one_plus(x) == IF x.k = "fin" THEN Fin(x.d + x.n, x.d) ELSE x

\* 1 / y, for y >= 1 or inf or nan
one_over(y) ==
    IF y.k = "fin" THEN Fin(y.d, y.n)
    ELSE IF y.k = "inf" THEN Fin(0, 1)
    ELSE NaN

float_eq(x, y) ==
    /\ x.k = y.k
    /\ x.k = "fin" => x.n * y.d = y.n * x.d

InUnitInterval(p) == p.k = "fin" /\ 0 <= p.n /\ p.n <= p.d

\* numpy.random.binomial(1, p, 1)[0]: ValueError for p < 0, p > 1 or nan,
\* else a numpy int64 that is 1 with probability p
binomial(p) ==
    IF ~InUnitInterval(p) THEN {Raise("ValueError")}
    ELSE {Ok(NpInt64(1)) : x \in IF p.n > 0 THEN {1} ELSE {}}
         \cup {Ok(NpInt64(0)) : x \in IF p.n < p.d THEN {0} ELSE {}}

\* float(x) of np.fromiter(..., float): exact for the integers of the model
to_float(x) == x.v

\* ---------------------------------------------------------------------- Die
\* random.randint(a, b): an integer in [a, b]; ValueError on an empty range
randint(a, b) ==
    IF a > b THEN {Raise("ValueError")} ELSE {Ok(PyInt(v)) : v \in a..b}

Die_init(sides) == [cls |-> "Die", sides |-> sides]

Die_sample_from_zero(self) ==
    {[self |-> self, ret |-> r] : r \in randint(0, self.sides)}

\* Each outcome is the die after the call and what the call returned.
Die_sample(self) ==
    {[self |-> self, ret |-> r] : r \in randint(1, self.sides)}

\* The attributes a Die instance resolves: those of Die, then of Distribution.
Distribution_attrs == {"sample"}
Die_attrs == {"__init__", "__repr__", "__eq__", "sample"} \cup Distribution_attrs

getattr(attrs, name) ==
    IF name \in attrs THEN Ok(name) ELSE Raise("AttributeError")


\* ----------------------------------------------------------------- Process1
\* alpha1 is given in units of ln 2, so that np.exp(alpha1 * x) is the power
\* of two 2^(alpha1 * x) and the logistic is an exact rational.
exp_ln2(m) == IF m >= 0 THEN Fin(ipow(2, m), 1) ELSE Fin(1, ipow(2, -m))

Process1(level_param, alpha1) ==
    [cls |-> "Process1", level_param |-> level_param, alpha1 |-> alpha1]

Process1_State(price) == [price |-> price]

Process1_up_prob(self, state) ==
    one_over(one_plus(exp_ln2(-self.alpha1 * (self.level_param - state.price.v))))

\* Each outcome is the argument after the call and what the call returned.
Process1_next_state(self, state) ==
    {[state |-> state,
      ret |-> IF IsExc(up_move) THEN up_move
              ELSE Ok(Process1_State(
                     num_sub(num_add(state.price, num_mul(up_move.val, PyInt(2))),
                             PyInt(1))))]
       : up_move \in binomial(Process1_up_prob(self, state))}

\* ----------------------------------------------------------------- Process2
handy_map == [b \in {"True", "False", "None"} |->
                 IF b = "True" THEN 1 ELSE IF b = "False" THEN -1 ELSE 0]

\* alpha2 is the rational alpha2.n / alpha2.d
Process2(alpha2) == [cls |-> "Process2", alpha2 |-> alpha2]

Process2_State(price, is_prev_move_up) ==
    [price |-> price, is_prev_move_up |-> is_prev_move_up]

Process2_up_prob_momentum(self, state) ==
    LET is_prev_move_up == handy_map[state.is_prev_move_up]
    IN  Fin(self.alpha2.d + self.alpha2.n * is_prev_move_up, 2 * self.alpha2.d)

\* up_prob = 0.5 * (1 - alpha2 * handy_map[is_prev_move_up])
Process2_up_prob(self, state) ==
    LET is_prev_move_up == handy_map[state.is_prev_move_up]
    IN  Fin(self.alpha2.d - self.alpha2.n * is_prev_move_up, 2 * self.alpha2.d)

Process2_up_move(self, state) == binomial(Process2_up_prob(self, state))

Process2_next_state_flipped(self, state) ==
    {[state |-> state,
      ret |-> IF IsExc(next_move_up) THEN next_move_up
              ELSE Ok(Process2_State(
                     num_sub(num_add(state.price, num_mul(PyInt(2), next_move_up.val)),
                             PyInt(1)),
                     IF next_move_up.val.v = 0 THEN "True" ELSE "False"))]
       : next_move_up \in Process2_up_move(self, state)}

Process2_next_state(self, state) ==
    {[state |-> state,
      ret |-> IF IsExc(next_move_up) THEN next_move_up
              ELSE Ok(Process2_State(
                     num_sub(num_add(state.price, num_mul(PyInt(2), next_move_up.val)),
                             PyInt(1)),
                     IF next_move_up.val.v = 1 THEN "True" ELSE "False"))]
       : next_move_up \in Process2_up_move(self, state)}

\* ----------------------------------------------------------------- Process3
\* alpha3 is a float with a natural value
Process3(alpha3) == [cls |-> "Process3", alpha3 |-> alpha3]

Process3_State(num_of_up_moves, num_of_down_moves) ==
    [num_of_up_moves |-> num_of_up_moves, num_of_down_moves |-> num_of_down_moves]

\* The guard tests num_of_up_moves twice, as the source does.
Process3_up_prob(self, state) ==
    IF state.num_of_up_moves.v = 0 /\ state.num_of_up_moves.v = 0
    THEN Ok(Half)
    ELSE LET q == true_div(state.num_of_up_moves, state.num_of_down_moves)
         IN  IF IsExc(q) THEN q
             ELSE Ok(one_over(one_plus(float_pow(q.val, self.alpha3))))

Process3_next_state_no_down(self, state) ==
    LET p == Process3_up_prob(self, state)
    IN  IF IsExc(p) THEN {[state |-> state, ret |-> p]}
        ELSE {[state |-> state,
               ret |-> IF IsExc(up_move) THEN up_move
                       ELSE Ok(Process3_State(
                              num_add(state.num_of_up_moves, up_move.val),
                              num_sub(state.num_of_down_moves, up_move.val)))]
                : up_move \in binomial(p.val)}

Process3_next_state(self, state) ==
    LET p == Process3_up_prob(self, state)
    IN  IF IsExc(p) THEN {[state |-> state, ret |-> p]}
        ELSE {[state |-> state,
               ret |-> IF IsExc(up_move) THEN up_move
                       ELSE Ok(Process3_State(
                              num_add(state.num_of_up_moves, up_move.val),
                              num_add(num_sub(state.num_of_down_moves, up_move.val),
                                      PyInt(1))))]
                : up_move \in binomial(p.val)}

\* process.next_state(state): the method of the process's class
next_state(process, state) ==
    IF process.cls = "Process1" THEN Process1_next_state(process, state)
    ELSE IF process.cls = "Process2" THEN Process2_next_state(process, state)
    ELSE Process3_next_state(process, state)

\* ------------------------------------------------------------- simulation
\* A generator instance: its arguments, its local `state` (unbound until the
\* first resume) and where its frame stands: "created" (not started),
\* "yielded" (suspended at the yield) or "closed" (an exception left it).
Unbound == [unbound |-> TRUE]

simulation(process, start_state) ==
    [cls |-> "generator", process |-> process, start_state |-> start_state,
     state |-> Unbound, pc |-> "created"]

simulation_step_first(g) ==
    IF g.pc = "closed" THEN {[gen |-> g, out |-> Raise("StopIteration")]}
    ELSE LET cur == IF g.pc = "created" THEN g.start_state ELSE g.state
         IN  {IF IsExc(o.ret)
              THEN [gen |-> [g EXCEPT !.pc = "closed", !.state = cur], out |-> o.ret]
              ELSE [gen |-> [g EXCEPT !.pc = "yielded", !.state = o.ret.val],
                    out |-> o.ret]
                : o \in next_state(g.process, cur)}

\* next(g): each outcome is the generator after the call and what the call
\* delivered (the yielded state, or the exception that came out).
simulation_next(g) ==
    IF g.pc = "closed" THEN {[gen |-> g, out |-> Raise("StopIteration")]}
    ELSE IF g.pc = "created"
    THEN {[gen |-> [g EXCEPT !.pc = "yielded", !.state = g.start_state],
           out |-> Ok(g.start_state)]}
    ELSE {IF IsExc(o.ret)
          THEN [gen |-> [g EXCEPT !.pc = "closed"], out |-> o.ret]
          ELSE [gen |-> [g EXCEPT !.pc = "yielded", !.state = o.ret.val],
                out |-> o.ret]
            : o \in next_state(g.process, g.state)}

\* -------------------------------------------------------- the trace builders
\* itertools.islice(g, n) consumed to its end, for n >= 0: the n first
\* elements of g; an exception out of g comes out of the consumer.
RECURSIVE islice(_, _)
islice(g, n) ==
    IF n = 0 THEN {Ok(<<>>)}
    ELSE UNION {IF IsExc(o.out)
                THEN {IF o.out.exc = "StopIteration" THEN Ok(<<>>) ELSE o.out}
                ELSE {IF IsExc(r) THEN r ELSE Ok(<<o.out.val>> \o r.val)
                        : r \in islice(o.gen, n - 1)}
                  : o \in simulation_next(g)}

\* The scalar a trace builder takes from a state: s.price for Process1 and
\* Process2, start_price + s.num_of_up_moves - s.num_of_down_moves for Process3.
project(process, start_price, s) ==
    IF process.cls = "Process3"
    THEN num_sub(num_add(start_price, s.num_of_up_moves), s.num_of_down_moves)
    ELSE s.price

\* One row: np.fromiter((project(s) for s in islice(simulation(process,
\* start_state), time_steps + 1)), dtype).  islice is built first and rejects a
\* negative count; np.fromiter called without its dtype argument is a
\* TypeError before it reads anything.
trace_row(process, start_state, start_price, time_steps, has_dtype) ==
    IF time_steps + 1 < 0 THEN {Raise("ValueError")}
    ELSE IF ~has_dtype THEN {Raise("TypeError")}
    ELSE {IF IsExc(r) THEN r
          ELSE Ok([i \in 1..Len(r.val) |->
                     to_float(project(process, start_price, r.val[i]))])
            : r \in islice(simulation(process, start_state), time_steps + 1)}

\* np.vstack([row for _ in range(num_traces)]): the first row that raises ends
\* the call; an empty list is a ValueError of np.vstack.
vstack_rows(rows, num_traces) ==
    IF num_traces <= 0 THEN {Raise("ValueError")}
    ELSE {r \in rows : IsExc(r)}
         \cup {Ok(t) : t \in [1..num_traces -> {r.val : r \in {x \in rows : IsOk(x)}}]}

process1_price_traces(start_price, level_param, alpha1, time_steps, num_traces) ==
    LET process == Process1(level_param, alpha1)
        start_state == Process1_State(start_price)
    IN  vstack_rows(trace_row(process, start_state, start_price, time_steps, TRUE),
                    num_traces)

\* The dtype stands outside the call of np.fromiter, as in the source.
process2_price_traces(start_price, num_traces, time_steps, alpha2) ==
    LET process == Process2(alpha2)
        start_state == Process2_State(start_price, "None")
    IN  vstack_rows(trace_row(process, start_state, start_price, time_steps, FALSE),
                    num_traces)

process3_price_traces(num_traces, time_steps, alpha3, start_price) ==
    LET process == Process3(alpha3)
        start_state == Process3_State(PyInt(0), PyInt(0))
    IN  vstack_rows(trace_row(process, start_state, start_price, time_steps, TRUE),
                    num_traces)

Shape(table) == <<Len(table), Len(table[1])>>

\* ------------------------------------------------------------------ inputs
SidesInputs     == -1..MaxSides
SampleNInputs   == -1..MaxN
StartPrices     == {PyInt(0), PyInt(3)}
LevelParams     == {0, 2}
Alpha1s         == {0, 1}
Alpha2s         == {[n |-> 0, d |-> 1], [n |-> 3, d |-> 4],
                    [n |-> 1, d |-> 1], [n |-> 2, d |-> 1]}
Alpha3s         == {0, 1, 2}
TimeStepsInputs == -2..MaxSteps
NumTracesInputs == -1..MaxTraces
Consumers       == {1, 2}
IntTypes        == {"int", "int64"}

Process1_States == {Process1_State(p) : p \in StartPrices}
Process2_States == {Process2_State(p, b) : p \in StartPrices,
                                           b \in {"True", "False", "None"}}
Process3_States ==
    {Process3_State([ty |-> tu, v |-> u], [ty |-> td, v |-> d])
       : tu \in IntTypes, td \in IntTypes, u \in 0..MaxCount, d \in 0..MaxCount}

Processes ==
    {Process1(l, a) : l \in LevelParams, a \in Alpha1s}
    \cup {Process2(a) : a \in Alpha2s}
    \cup {Process3(a) : a \in Alpha3s}

\* the states a caller passes directly to a process of this class
States(process) ==
    IF process.cls = "Process1" THEN Process1_States
    ELSE IF process.cls = "Process2" THEN Process2_States
    ELSE Process3_States

\* the start states a caller gives to simulation
StartStates(process) ==
    IF process.cls = "Process1" THEN Process1_States
    ELSE IF process.cls = "Process2"
    THEN {s \in Process2_States : s.is_prev_move_up = "None"}
    ELSE {s \in Process3_States : /\ s.num_of_up_moves.ty = "int"
                                  /\ s.num_of_down_moves.ty = "int"
                                  /\ s.num_of_up_moves.v <= 1
                                  /\ s.num_of_down_moves.v <= 1}

\* ------------------------------------------------------------------- state
VARIABLES
    obj,     \* the object the caller holds: none, a Die or a generator
    pulled,  \* what next() on the held generator delivered so far, and to whom
    call     \* the last call made and its outcome

vars == <<obj, pulled, call>>

NoObj == [cls |-> "none"]

Init ==
    /\ obj = NoObj
    /\ pulled = <<>>
    /\ call = [op |-> "none"]

\* The module's functions and the processes' methods keep no state between
\* calls (the random source is a free choice), so the outcome of one call does
\* not depend on the calls before it: the caller makes each from a state where
\* it holds no object and no earlier outcome is on record.
Idle == obj = NoObj /\ call.op \in {"none", "del"}

\* d = Die(sides)
NewDie(sides) ==
    /\ obj = NoObj
    /\ obj' = Die_init(sides)
    /\ call' = [op |-> "Die", sides |-> sides]
    /\ UNCHANGED pulled

\* d.sample()
DieSample ==
    /\ obj.cls = "Die"
    /\ \E o \in Die_sample(obj) :
          /\ obj' = o.self
          /\ call' = [op |-> "Die.sample", self |-> obj, result |-> o.ret]
    /\ UNCHANGED pulled

\* d.sample_n(n): the attribute lookup decides the outcome
DieSampleN(n) ==
    /\ obj.cls = "Die"
    /\ call' = [op |-> "Die.sample_n", self |-> obj, n |-> n,
                result |-> getattr(Die_attrs, "sample_n")]
    /\ UNCHANGED <<obj, pulled>>

\* the caller lets go of the object it holds
Del ==
    /\ obj # NoObj
    /\ obj' = NoObj
    /\ pulled' = <<>>
    /\ call' = [op |-> "del"]

\* Process3(alpha3).up_prob(state)
UpProb3(alpha3, state) ==
    /\ Idle
    /\ call' = [op |-> "Process3.up_prob", self |-> Process3(alpha3),
                state |-> state,
                result |-> Process3_up_prob(Process3(alpha3), state)]
    /\ UNCHANGED <<obj, pulled>>

\* Process2(alpha2).up_move(state): the record keeps the probability handed to
\* binomial next to what the call returned
UpMove2(alpha2, state) ==
    /\ Idle
    /\ \E r \in Process2_up_move(Process2(alpha2), state) :
          call' = [op |-> "Process2.up_move", self |-> Process2(alpha2),
                   state |-> state,
                   up_prob |-> Process2_up_prob(Process2(alpha2), state),
                   result |-> r]
    /\ UNCHANGED <<obj, pulled>>

\* process.next_state(state)
NextState(process, state) ==
    /\ Idle
    /\ \E o \in next_state(process, state) :
          call' = [op |-> "next_state", self |-> process, state |-> state,
                   state_after |-> o.state, result |-> o.ret]
    /\ UNCHANGED <<obj, pulled>>

\* g = simulation(process, start_state)
Simulation(process, start_state) ==
    /\ obj = NoObj
    /\ obj' = simulation(process, start_state)
    /\ pulled' = <<>>
    /\ call' = [op |-> "simulation"]

\* next(g), by consumer c; a second consumer takes over from the first
GenNext(c) ==
    /\ obj.cls = "generator"
    /\ Len(pulled) < MaxPulls
    /\ pulled # <<>> => c >= pulled[Len(pulled)].consumer
    /\ \E o \in simulation_next(obj) :
          /\ obj' = o.gen
          /\ pulled' = Append(pulled, [consumer |-> c, out |-> o.out])
          /\ call' = [op |-> "next", consumer |-> c, was |-> obj.pc,
                      result |-> o.out]

Traces1(start_price, level_param, alpha1, time_steps, num_traces) ==
    /\ Idle
    /\ \E r \in process1_price_traces(start_price, level_param, alpha1,
                                      time_steps, num_traces) :
          call' = [op |-> "process1_price_traces", start_price |-> start_price,
                   param |-> <<level_param, alpha1>>,
                   time_steps |-> time_steps, num_traces |-> num_traces,
                   result |-> r]
    /\ UNCHANGED <<obj, pulled>>

Traces2(start_price, num_traces, time_steps, alpha2) ==
    /\ Idle
    /\ \E r \in process2_price_traces(start_price, num_traces, time_steps, alpha2) :
          call' = [op |-> "process2_price_traces", start_price |-> start_price,
                   param |-> <<alpha2>>,
                   time_steps |-> time_steps, num_traces |-> num_traces,
                   result |-> r]
    /\ UNCHANGED <<obj, pulled>>

Traces3(num_traces, time_steps, alpha3, start_price) ==
    /\ Idle
    /\ \E r \in process3_price_traces(num_traces, time_steps, alpha3, start_price) :
          call' = [op |-> "process3_price_traces", start_price |-> start_price,
                   param |-> <<alpha3>>,
                   time_steps |-> time_steps, num_traces |-> num_traces,
                   result |-> r]
    /\ UNCHANGED <<obj, pulled>>

Next ==
    \/ \E sides \in SidesInputs : NewDie(sides)
    \/ DieSample
    \/ \E n \in SampleNInputs : DieSampleN(n)
    \/ Del
    \/ \E alpha3 \in Alpha3s, state \in Process3_States : UpProb3(alpha3, state)
    \/ \E alpha2 \in Alpha2s, state \in Process2_States : UpMove2(alpha2, state)
    \/ \E process \in Processes : \E state \in States(process) :
          NextState(process, state)
    \/ \E process \in Processes : \E start_state \in StartStates(process) :
          Simulation(process, start_state)
    \/ \E c \in Consumers : GenNext(c)
    \/ \E start_price \in StartPrices, level_param \in LevelParams,
          alpha1 \in Alpha1s, time_steps \in TimeStepsInputs,
          num_traces \in NumTracesInputs :
          Traces1(start_price, level_param, alpha1, time_steps, num_traces)
    \/ \E start_price \in StartPrices, num_traces \in NumTracesInputs,
          time_steps \in TimeStepsInputs, alpha2 \in Alpha2s :
          Traces2(start_price, num_traces, time_steps, alpha2)
    \/ \E num_traces \in NumTracesInputs, time_steps \in TimeStepsInputs,
          alpha3 \in Alpha3s, start_price \in StartPrices :
          Traces3(num_traces, time_steps, alpha3, start_price)

Spec == Init /\ [][Next]_vars

\* ------------------------------------------------------------------ claims
IsTraceCall ==
    call.op \in {"process1_price_traces", "process2_price_traces",
                 "process3_price_traces"}

IsNextStateOf(cls) == call.op = "next_state" /\ call.self.cls = cls

IsGeneratorOf(cls) == obj.cls = "generator" /\ obj.process.cls = cls

Abs(x) == IF x < 0 THEN -x ELSE x

\* C1: every trace builder, called with time_steps >= 0 and num_traces >= 1,
\* returns a table of shape (num_traces, time_steps + 1) whose first column
\* is start_price in every row.
C1_TableShapeAndFirstColumn ==
    (IsTraceCall /\ call.time_steps >= 0 /\ call.num_traces >= 1) =>
        /\ IsOk(call.result)
        /\ Shape(call.result.val) = <<call.num_traces, call.time_steps + 1>>
        /\ \A r \in 1..call.num_traces :
              call.result.val[r][1] = call.start_price.v

\* C2: Process3.up_prob of a state with num_down == 0 and num_up > 0 returns
\* a finite value in [0, 1] and never raises, and no simulation of Process3
\* started at (0, 0) delivers a ZeroDivisionError.
C2_UpProbDefinedWithoutDownMoves ==
    /\ (/\ call.op = "Process3.up_prob"
        /\ call.state.num_of_down_moves.v = 0
        /\ call.state.num_of_up_moves.v > 0) =>
           (IsOk(call.result) /\ InUnitInterval(call.result.val))
    /\ (/\ IsGeneratorOf("Process3")
        /\ obj.start_state = Process3_State(PyInt(0), PyInt(0))) =>
           \A k \in 1..Len(pulled) :
              pulled[k].out # Raise("ZeroDivisionError")

\* C3: Process3.up_prob returns 0.5 when both counters are zero and
\* 1 / (1 + (num_up / num_down) ^ alpha3) in every other state with
\* num_down > 0; so 1, not 0.5, for num_up == 0, num_down > 0, alpha3 > 0.
C3_UpProbFormula ==
    call.op = "Process3.up_prob" =>
        LET up    == call.state.num_of_up_moves.v
            down  == call.state.num_of_down_moves.v
            alpha == call.self.alpha3
        IN  /\ (up = 0 /\ down = 0) => call.result = Ok(Half)
            /\ down > 0 =>
                  /\ IsOk(call.result)
                  /\ float_eq(call.result.val,
                              Fin(ipow(down, alpha),
                                  ipow(down, alpha) + ipow(up, alpha)))

\* C4: the k-th element pulled from a generator instance, counted across its
\* consumers, is start_state for k = 0 and an outcome of next_state on the
\* (k-1)-th otherwise; the generator never ends of itself (StopIteration
\* comes only after an exception of next_state left the generator).
C4_SimulationSequence ==
    obj.cls = "generator" =>
        \A k \in 1..Len(pulled) :
           /\ k = 1 => pulled[k].out = Ok(obj.start_state)
           /\ k > 1 =>
                 IF IsOk(pulled[k - 1].out)
                 THEN \E o \in next_state(obj.process, pulled[k - 1].out.val) :
                         pulled[k].out = o.ret
                 ELSE pulled[k].out = Raise("StopIteration")

\* two consumers in sequence: the second one got the continuation
C4_Witness ==
    /\ obj.cls = "generator"
    /\ Len(pulled) >= 4
    /\ pulled[2].consumer = 1
    /\ pulled[3].consumer = 2
    /\ \A k \in 1..4 : IsOk(pulled[k].out)
    /\ pulled[3].out.val # obj.start_state

\* C5: sample_n(n) of a sampler returns exactly n values for n >= 0 and fails
\* with an invalid-argument error for n < 0.
C5_SampleN ==
    call.op = "Die.sample_n" =>
        IF call.n >= 0
        THEN IsOk(call.result) /\ Len(call.result.val) = call.n
        ELSE call.result = Raise("ValueError")

\* C6: no Die object with sides < 1 ever exists.
C6_NoDieBelowOneSide ==
    obj.cls = "Die" => obj.sides >= 1

\* C7: a trace builder called with time_steps < 0 or num_traces <= 0 fails
\* and returns no table (stated for any class of exception).
C7_BadTraceArgumentsFail ==
    (IsTraceCall /\ (call.time_steps < 0 \/ call.num_traces <= 0)) =>
        IsExc(call.result)

\* C8: for sides >= 1, sample() returns an integer in [1, sides] and leaves
\* the die's sides unchanged.
C8_SampleInRange ==
    (call.op = "Die.sample" /\ call.self.sides >= 1) =>
        /\ IsOk(call.result)
        /\ call.result.val.ty = "int"
        /\ call.result.val.v \in 1..call.self.sides
        /\ obj.cls = "Die"
        /\ obj.sides = call.self.sides

C8_Witness ==
    /\ call.op = "Die.sample"
    /\ call.self.sides = 3
    /\ call.result = Ok(PyInt(3))

\* C9: Process3.next_state increments exactly one counter by exactly 1 and
\* leaves the other unchanged; in a simulation started at (0, 0) the state at
\* step t has num_up + num_down == t with both counters non-negative, and
\* the derived price of process3_price_traces moves by exactly 1 per step.
C9_OneCounterPerStep ==
    /\ (IsNextStateOf("Process3") /\ IsOk(call.result)) =>
          LET s == call.state
              r == call.result.val
          IN  \/ /\ r.num_of_up_moves.v = s.num_of_up_moves.v + 1
                 /\ r.num_of_down_moves.v = s.num_of_down_moves.v
              \/ /\ r.num_of_up_moves.v = s.num_of_up_moves.v
                 /\ r.num_of_down_moves.v = s.num_of_down_moves.v + 1
    /\ (/\ IsGeneratorOf("Process3")
        /\ obj.start_state = Process3_State(PyInt(0), PyInt(0))) =>
          \A k \in 1..Len(pulled) :
             /\ IsOk(pulled[k].out)
             /\ pulled[k].out.val.num_of_up_moves.v >= 0
             /\ pulled[k].out.val.num_of_down_moves.v >= 0
             /\ pulled[k].out.val.num_of_up_moves.v
                  + pulled[k].out.val.num_of_down_moves.v = k - 1
    /\ (call.op = "process3_price_traces" /\ IsOk(call.result)) =>
          \A r \in 1..call.num_traces :
             \A t \in 1..(Len(call.result.val[r]) - 1) :
                Abs(call.result.val[r][t + 1] - call.result.val[r][t]) = 1

C9_Witness ==
    /\ IsGeneratorOf("Process3")
    /\ obj.start_state = Process3_State(PyInt(0), PyInt(0))
    /\ Len(pulled) >= 4
    /\ IsOk(pulled[4].out)
    /\ pulled[4].out.val.num_of_up_moves.v = 2
    /\ pulled[4].out.val.num_of_down_moves.v = 1

\* C10: Process2.next_state returns a new state with price + 1 and
\* is_prev_move_up True, or price - 1 and is_prev_move_up False, and does not
\* modify its argument; in a simulation is_prev_move_up is None only in the
\* initial state.  The call returns whenever -1 <= alpha2 <= 1.
C10_DirectionAgreesWithPrice ==
    /\ IsNextStateOf("Process2") =>
          /\ call.state_after = call.state
          /\ Abs(call.self.alpha2.n) <= call.self.alpha2.d => IsOk(call.result)
          /\ IsOk(call.result) =>
                LET s == call.state
                    r == call.result.val
                IN  \/ r.price.v = s.price.v + 1 /\ r.is_prev_move_up = "True"
                    \/ r.price.v = s.price.v - 1 /\ r.is_prev_move_up = "False"
    /\ IsGeneratorOf("Process2") =>
          \A k \in 1..Len(pulled) :
             IsOk(pulled[k].out) =>
                (pulled[k].out.val.is_prev_move_up = "None" <=> k = 1)

C10_Witness ==
    /\ IsNextStateOf("Process2")
    /\ call.state.is_prev_move_up = "True"
    /\ IsOk(call.result)
    /\ call.result.val.is_prev_move_up = "False"
    /\ call.result.val.price.v = call.state.price.v - 1

\* C11: the probability Process2 uses for the move out of s is
\* 0.5 * (1 - alpha2 * sign), sign = +1 / -1 / 0 for is_prev_move_up
\* True / False / None: exactly 0.5 in the initial state, and the draw follows
\* it (1 only if it is > 0, 0 only if it is < 1, ValueError outside [0, 1]);
\* with alpha2 == 1 every move after the first reverses the move before it.
C11_ReversalProbability ==
    /\ call.op = "Process2.up_move" =>
          LET sign == IF call.state.is_prev_move_up = "True" THEN 1
                      ELSE IF call.state.is_prev_move_up = "False" THEN -1
                      ELSE 0
              n == call.self.alpha2.n
              d == call.self.alpha2.d
              p == call.up_prob
          IN  /\ p.k = "fin"
              /\ p.d > 0
              /\ 2 * d * p.n = (d - n * sign) * p.d
              /\ call.state.is_prev_move_up = "None" => 2 * p.n = p.d
              /\ call.result = Ok(NpInt64(1)) => p.n > 0
              /\ call.result = Ok(NpInt64(0)) => p.n < p.d
              /\ IsExc(call.result) <=> (p.n < 0 \/ p.n > p.d)
    /\ (IsNextStateOf("Process2") /\ call.self.alpha2.n = call.self.alpha2.d
          /\ call.state.is_prev_move_up # "None") =>
          /\ IsOk(call.result)
          /\ call.result.val.is_prev_move_up # call.state.is_prev_move_up
    /\ (IsGeneratorOf("Process2") /\ obj.process.alpha2.n = obj.process.alpha2.d) =>
          \A k \in 3..Len(pulled) :
             /\ IsOk(pulled[k].out)
             /\ pulled[k].out.val.is_prev_move_up
                  # pulled[k - 1].out.val.is_prev_move_up

\* alpha2 == 1: a simulation went up, down, up
C11_Witness ==
    /\ IsGeneratorOf("Process2")
    /\ obj.process.alpha2 = [n |-> 1, d |-> 1]
    /\ Len(pulled) >= 4
    /\ IsOk(pulled[4].out)
    /\ pulled[2].out.val.is_prev_move_up = "True"
    /\ pulled[3].out.val.is_prev_move_up = "False"
    /\ pulled[4].out.val.is_prev_move_up = "True"

====
